---- MODULE Spec2Model ----
(***************************************************************************)
(* A model of app.py, a Streamlit dashboard over one CSV file.  The whole  *)
(* script is re-executed on every interaction; each action below is one    *)
(* interaction followed by the complete script run it triggers.            *)
(*                                                                         *)
(* Text is modelled as sequences of one-character strings, so that         *)
(* stripping, comma removal, case folding, substring and regular           *)
(* expression search, number parsing and formatting are computed.          *)
(* The Korean column headers and the file-name hint of the source are      *)
(* written in ASCII romanisation.                                          *)
(*                                                                         *)
(* Library semantics assumed: pandas 1.x/2.x (to_numeric accepts           *)
(* errors="ignore" and text columns have dtype object), files returned by  *)
(* glob are readable, numbers in files are non-negative integers.          *)
(***************************************************************************)
EXTENDS Integers, Sequences, FiniteSets, TLC

VARIABLES
    files,          \* the working directory: set of [name, kind, table]
    nan_parses,     \* whether this build's to_numeric parses the text "nan"
    cache,          \* st.cache_data memo of load_np_data
    widgets,        \* Streamlit widget state: widget key -> value, or Unset
    interactions,   \* number of script runs so far in the session
    status,         \* "init", "ok", "halted" (st.stop) or "crashed" (exception)
    rendered,       \* the UI elements emitted by the last run, in order
    df,             \* the normalized dataset of the last run
    used_file,      \* file name returned by the loader
    used_enc,       \* encoding under which read_csv succeeded
    roles,          \* name_col, val_col, wgt_col, own_col
    df_f,           \* the filtered view: row labels of df, in view order
    metrics,        \* rows, cols, total_valuation, topN_share and its display
    top_tbl,        \* Top-N by valuation (row labels)
    rank            \* Top-N by the chosen metric (row labels)

vars == <<files, nan_parses, cache, widgets, interactions, status, rendered,
          df, used_file, used_enc, roles, df_f, metrics, top_tbl, rank>>

-----------------------------------------------------------------------------
(* Bounds of the model *)

MaxRows == 2
MaxInteractions == 2
MaxFiles == 2

-----------------------------------------------------------------------------
(* Text *)

Range(s) == {s[i] : i \in 1..Len(s)}

Min(S) == CHOOSE x \in S : \A y \in S : x <= y
Max(S) == CHOOSE x \in S : \A y \in S : x >= y

DigitChars == <<"0", "1", "2", "3", "4", "5", "6", "7", "8", "9">>
IsDigit(c) == c \in Range(DigitChars)
DigitVal(c) == (CHOOSE i \in 1..10 : DigitChars[i] = c) - 1

\* str.lower on the characters of the model
LowerChar(c) == CASE c = "A" -> "a" [] c = "B" -> "b" [] OTHER -> c

\* code point order of the characters of the model
CharCode(c) ==
    CASE c = " " -> 32 [] c = "(" -> 40 [] c = "," -> 44 [] c = "." -> 46
      [] IsDigit(c) -> 48 + DigitVal(c)
      [] c = "A" -> 65 [] c = "B" -> 66
      [] c = "a" -> 97 [] c = "b" -> 98 [] c = "n" -> 110

RECURSIVE StrLess(_, _)
StrLess(s, t) ==
    IF t = <<>> THEN FALSE
    ELSE IF s = <<>> THEN TRUE
    ELSE IF s[1] # t[1] THEN CharCode(s[1]) < CharCode(t[1])
    ELSE StrLess(Tail(s), Tail(t))

\* str.strip(): whitespace removed at both ends
RECURSIVE LStrip(_)
LStrip(s) == IF s # <<>> /\ s[1] = " " THEN LStrip(Tail(s)) ELSE s
RECURSIVE RStrip(_)
RStrip(s) ==
    IF s # <<>> /\ s[Len(s)] = " " THEN RStrip(SubSeq(s, 1, Len(s) - 1)) ELSE s
Strip(s) == RStrip(LStrip(s))

\* str.replace(",", "")
RemoveCommas(s) == SelectSeq(s, LAMBDA c : c # ",")

\* decimal digits of a non-negative integer
RECURSIVE IntToStr(_)
IntToStr(n) ==
    IF n < 10 THEN <<DigitChars[n + 1]>>
    ELSE IntToStr(n \div 10) \o <<DigitChars[(n % 10) + 1]>>

RECURSIVE DigitsToInt(_)
DigitsToInt(s) ==
    IF s = <<>> THEN 0
    ELSE 10 * DigitsToInt(SubSeq(s, 1, Len(s) - 1)) + DigitVal(s[Len(s)])

IsPlainNumber(s) == s # <<>> /\ \A i \in 1..Len(s) : IsDigit(s[i])

NanText == <<"n", "a", "n">>

-----------------------------------------------------------------------------
(* Cells and frames *)

Null == [t |-> "null", v |-> 0, s |-> <<>>]
Num(n) == [t |-> "num", v |-> n, s |-> <<>>]
Str(s) == [t |-> "str", v |-> 0, s |-> s]

NoCol == "None"

\* A frame is column-oriented: [cols, n, col], col[c] = [dtype, cells];
\* rows keep their labels 1..n in every derived view.
ColumnTexts(table, c) == [i \in 1..Len(table.rows) |-> table.rows[i][c]]

\* read_csv's default missing-value markers among the texts of the model
NaTexts == {<<>>, NanText}

\* pd.read_csv type inference: a column whose non-missing fields are all
\* numbers is int64 (float64 when a field is missing), otherwise object
ReadColumn(texts) ==
    LET isNa(i) == texts[i] \in NaTexts
        numeric == \A i \in 1..Len(texts) : isNa(i) \/ IsPlainNumber(texts[i])
        hasNull == \E i \in 1..Len(texts) : isNa(i)
    IN  IF numeric
        THEN [dtype |-> IF hasNull THEN "float64" ELSE "int64",
              cells |-> [i \in 1..Len(texts) |->
                            IF isNa(i) THEN Null ELSE Num(DigitsToInt(texts[i]))]]
        ELSE [dtype |-> "object",
              cells |-> [i \in 1..Len(texts) |->
                            IF isNa(i) THEN Null ELSE Str(texts[i])]]

read_csv(table) ==
    [cols |-> table.cols,
     n    |-> Len(table.rows),
     col  |-> [c \in Range(table.cols) |-> ReadColumn(ColumnTexts(table, c))]]

NoFrame == [cols |-> <<>>, n |-> 0, col |-> <<>>]

-----------------------------------------------------------------------------
(* Data loader *)

\* *.csv names of the model, listed in sorted() order
NamePool == <<"a.csv", "b_NPS.csv", "c_NPS.csv", "d.csv">>
NameRank(name) == CHOOSE i \in 1..Len(NamePool) : NamePool[i] = name

\* "NPS" stands for the hint token of line 21
HasHint(name) == name \in {"b_NPS.csv", "c_NPS.csv"}

Encodings == <<"utf-8", "utf-8-sig", "cp949", "euc-kr">>

\* whether pd.read_csv(io.BytesIO(raw), encoding=enc) returns, by the bytes
\* of the file: UTF-8 text, EUC-KR text (which CP949 extends), or bytes no
\* encoding parses (an empty file)
Parses(kind, enc) ==
    CASE kind = "utf8"  -> enc \in {"utf-8", "utf-8-sig"}
      [] kind = "euckr" -> enc \in {"cp949", "euc-kr"}
      [] OTHER          -> FALSE

\* sorted(names)
RECURSIVE Sorted(_)
Sorted(names) ==
    IF names = {} THEN <<>>
    ELSE LET first == CHOOSE x \in names :
                          \A y \in names : NameRank(x) <= NameRank(y)
         IN  <<first>> \o Sorted(names \ {first})

Glob(fs) == {f.name : f \in fs}
FileNamed(fs, name) == CHOOSE f \in fs : f.name = name

NoData == [ok |-> FALSE, fname |-> NoCol, enc |-> NoCol, frame |-> NoFrame]

\* lines 29-34: the first encoding under which the file parses
RECURSIVE TryEncodings(_, _)
TryEncodings(f, e) ==
    IF e > Len(Encodings) THEN NoData
    ELSE IF Parses(f.kind, Encodings[e])
         THEN [ok |-> TRUE, fname |-> f.name, enc |-> Encodings[e],
               frame |-> read_csv(f.table)]
         ELSE TryEncodings(f, e + 1)

\* lines 27-35: the first candidate that parses
RECURSIVE TryFiles(_, _)
TryFiles(fs, cand) ==
    IF cand = <<>> THEN NoData
    ELSE LET r == TryEncodings(FileNamed(fs, Head(cand)), 1)
         IN  IF r.ok THEN r ELSE TryFiles(fs, Tail(cand))

\* the hint preference of lines 21-23 left out
CandidatesNoHint(fs) == Sorted(Glob(fs))

Candidates(fs) ==
    LET hinted == {p \in Glob(fs) : HasHint(p)}
    IN  IF hinted # {} THEN Sorted(hinted) ELSE Sorted(Glob(fs))

load_np_data(fs) == TryFiles(fs, Candidates(fs))

\* @st.cache_data: the memoised result when there is one
CachedLoad(c, fs) == IF c.filled THEN c.result ELSE load_np_data(fs)

EmptyCache == [filled |-> FALSE, result |-> NoData]

-----------------------------------------------------------------------------
(* Schema normalisation, lines 47-58 *)

\* Series.astype(str) on one value
AsTypeStr(cell, dtype) ==
    CASE cell.t = "null" -> NanText
      [] cell.t = "str"  -> cell.s
      [] OTHER -> IF dtype = "float64" THEN IntToStr(cell.v) \o <<".", "0">>
                  ELSE IntToStr(cell.v)

\* whether to_numeric converts the text, and to what
TextConverts(s, np) == IsPlainNumber(s) \/ (np /\ s = NanText)
TextToCell(s) == IF IsPlainNumber(s) THEN Num(DigitsToInt(s)) ELSE Null

\* line 50 on an object column:
\* pd.to_numeric(df[c].astype(str).str.replace(",", ""), errors="ignore")
\* returns the converted values, or its argument when a value does not parse
CoerceColumn(column, np) ==
    LET n == Len(column.cells)
        stripped == [i \in 1..n |-> RemoveCommas(AsTypeStr(column.cells[i], "object"))]
        allParse == \A i \in 1..n : TextConverts(stripped[i], np)
        converted == [i \in 1..n |-> TextToCell(stripped[i])]
    IN  IF allParse
        THEN [dtype |-> IF \E i \in 1..n : converted[i].t = "null"
                        THEN "float64" ELSE "int64",
              cells |-> converted]
        ELSE [dtype |-> "object", cells |-> [i \in 1..n |-> Str(stripped[i])]]

\* lines 47-52
Normalize(frame, np) ==
    [frame EXCEPT !.col = [c \in DOMAIN frame.col |->
        IF frame.col[c].dtype = "object"
        THEN CoerceColumn(frame.col[c], np)
        ELSE frame.col[c]]]

IsNumericDtype(dtype) == dtype \in {"int64", "float64"}

\* canonical headers, romanised
NoHeader   == "beonho"
NameHeader == "jongmokmyeong"
ValHeader  == "pyeonggaaek"
WgtHeader  == "bijung"
OwnHeader  == "jibunyul"

HasColumn(frame, c) == c \in Range(frame.cols)

NumberColumns(frame) ==
    SelectSeq(frame.cols, LAMBDA c : IsNumericDtype(frame.col[c].dtype))

\* lines 55-58; an IndexError of a fallback is reported by ok = FALSE
ResolveRoles(frame) ==
    LET nameOk == HasColumn(frame, NameHeader) \/ Len(frame.cols) >= 2
        valOk  == HasColumn(frame, ValHeader) \/ NumberColumns(frame) # <<>>
    IN  [ok       |-> nameOk /\ valOk,
         name_col |-> IF HasColumn(frame, NameHeader) THEN NameHeader
                      ELSE IF nameOk THEN frame.cols[2] ELSE NoCol,
         val_col  |-> IF HasColumn(frame, ValHeader) THEN ValHeader
                      ELSE IF valOk THEN NumberColumns(frame)[1] ELSE NoCol,
         wgt_col  |-> IF HasColumn(frame, WgtHeader) THEN WgtHeader ELSE NoCol,
         own_col  |-> IF HasColumn(frame, OwnHeader) THEN OwnHeader ELSE NoCol]

NoRoles == [ok |-> FALSE, name_col |-> NoCol, val_col |-> NoCol,
            wgt_col |-> NoCol, own_col |-> NoCol]

-----------------------------------------------------------------------------
(* Sidebar, lines 61-86 *)

TopNMin == 5
TopNMax == 50
TopNDefault == 20

Cell(frame, c, i) == frame.col[c].cells[i]

\* pd.to_numeric(..., errors="coerce") on one value of a normalized column
NumericOf(cell) ==
    CASE cell.t = "num" -> cell
      [] cell.t = "str" /\ IsPlainNumber(cell.s) -> Num(DigitsToInt(cell.s))
      [] OTHER -> Null

NumericValues(frame, c) ==
    {NumericOf(Cell(frame, c, i)).v :
        i \in {j \in 1..frame.n : NumericOf(Cell(frame, c, j)).t = "num"}}

\* the optional range sliders exist for a present column of numeric dtype
RangeActive(frame, c) == c # NoCol /\ IsNumericDtype(frame.col[c].dtype)

\* min and max of a slider are the observed minimum and maximum
SliderMin(frame, c) == Min(NumericValues(frame, c))
SliderMax(frame, c) == Max(NumericValues(frame, c))

\* st.slider needs finite limits: every slider column holds a number
SlidersDefined(frame, ro) ==
    /\ NumericValues(frame, ro.val_col) # {}
    /\ \A c \in {ro.own_col, ro.wgt_col} :
          RangeActive(frame, c) => NumericValues(frame, c) # {}

\* a widget returns its stored value, or its default when never touched
SliderValue(w, frame, c) ==
    IF w.set THEN <<w.lo, w.hi>> ELSE <<SliderMin(frame, c), SliderMax(frame, c)>>

UnsetRange == [set |-> FALSE, lo |-> 0, hi |-> 0]

DefaultWidgets ==
    [keyword   |-> <<>>,
     top_n     |-> TopNDefault,
     val_range |-> UnsetRange,
     own_range |-> UnsetRange,
     wgt_range |-> UnsetRange,
     metric    |-> NoCol,
     asc       |-> FALSE]

-----------------------------------------------------------------------------
(* Filters, lines 89-97 *)

\* re.compile(pat): "(" opens a group that nothing in the alphabet closes
ValidPattern(p) == "(" \notin Range(p)

\* re.search(pat, s, re.IGNORECASE) for patterns of literals and "."
MatchesAt(p, s, i) ==
    \A k \in 1..Len(p) : p[k] = "." \/ LowerChar(p[k]) = LowerChar(s[i + k - 1])
re_search(p, s) == \E i \in 1..(Len(s) - Len(p) + 1) : MatchesAt(p, s, i)

\* df_f[name_col].astype(str).str.contains(kw, case=False, na=False) on row i
KeywordMatch(frame, name_col, kw, i) ==
    re_search(kw, AsTypeStr(Cell(frame, name_col, i), frame.col[name_col].dtype))

\* lines 90-91
FilterKeyword(frame, name_col, keyword, view) ==
    IF Strip(keyword) # <<>>
    THEN SelectSeq(view, LAMBDA i : KeywordMatch(frame, name_col, Strip(keyword), i))
    ELSE view

\* between(..., inclusive="neither")
BetweenExclusive(cell, lo, hi) == cell.t = "num" /\ lo < cell.v /\ cell.v < hi

\* Series.between(lo, hi, inclusive="both") on one coerced value
Between(cell, lo, hi) == cell.t = "num" /\ lo <= cell.v /\ cell.v <= hi

\* between(range[1], range[0]): the bounds passed in the wrong order
FilterRangeSwapped(frame, c, range, view) ==
    SelectSeq(view, LAMBDA i : Between(NumericOf(Cell(frame, c, i)), range[2], range[1]))

\* lines 93, 95, 97
FilterRange(frame, c, range, view) ==
    SelectSeq(view, LAMBDA i : Between(NumericOf(Cell(frame, c, i)), range[1], range[2]))

AllRows(frame) == [i \in 1..frame.n |-> i]

\* the ownership filter applied to the keyword result instead of the
\* valuation result, which loses the valuation filter
ApplyFiltersLost(frame, ro, keyword, val_range, own_range, wgt_range) ==
    LET f0 == AllRows(frame)
        f1 == FilterKeyword(frame, ro.name_col, keyword, f0)
        f2 == FilterRange(frame, ro.val_col, val_range, f1)
        f3 == IF RangeActive(frame, ro.own_col)
              THEN FilterRange(frame, ro.own_col, own_range, f1) ELSE f2
        f4 == IF RangeActive(frame, ro.wgt_col)
              THEN FilterRange(frame, ro.wgt_col, wgt_range, f3) ELSE f3
    IN  f4

\* lines 89-97
ApplyFilters(frame, ro, keyword, val_range, own_range, wgt_range) ==
    LET f0 == AllRows(frame)
        f1 == FilterKeyword(frame, ro.name_col, keyword, f0)
        f2 == FilterRange(frame, ro.val_col, val_range, f1)
        f3 == IF RangeActive(frame, ro.own_col)
              THEN FilterRange(frame, ro.own_col, own_range, f2) ELSE f2
        f4 == IF RangeActive(frame, ro.wgt_col)
              THEN FilterRange(frame, ro.wgt_col, wgt_range, f3) ELSE f3
    IN  f4

-----------------------------------------------------------------------------
(* Aggregates and rankings, lines 112-181 *)

\* order of two values of one column under sort_values: missing values last
CellLess(a, b) == IF a.t = "num" THEN a.v < b.v ELSE StrLess(a.s, b.s)
Precedes(frame, c, asc, i, j) ==
    LET a == Cell(frame, c, i)
        b == Cell(frame, c, j)
    IN  IF a.t = "null" THEN FALSE
        ELSE IF b.t = "null" THEN TRUE
        ELSE IF asc THEN CellLess(a, b) ELSE CellLess(b, a)

RECURSIVE SortedOrders(_, _, _, _)
SortedOrders(frame, c, asc, S) ==
    IF S = {} THEN {<<>>}
    ELSE LET firsts == {x \in S : \A y \in S : ~Precedes(frame, c, asc, y, x)}
         IN  UNION {{<<x>> \o p : p \in SortedOrders(frame, c, asc, S \ {x})} :
                        x \in firsts}

\* DataFrame.sort_values(c, ascending=asc) with the default kind="quicksort",
\* which is not stable: every order of the rows that is sorted by the key
sort_values(frame, c, asc, view) == SortedOrders(frame, c, asc, Range(view))

\* DataFrame.head(n)
head(view, n) == SubSeq(view, 1, IF n < Len(view) THEN n ELSE Len(view))

RECURSIVE SumNumeric(_, _, _)
SumNumeric(frame, c, view) ==
    IF view = <<>> THEN 0
    ELSE LET x == NumericOf(Cell(frame, c, Head(view)))
         IN  (IF x.t = "num" THEN x.v ELSE 0) + SumNumeric(frame, c, Tail(view))

RECURSIVE ConcatText(_, _, _)
ConcatText(frame, c, view) ==
    IF view = <<>> THEN <<>>
    ELSE Cell(frame, c, Head(view)).s \o ConcatText(frame, c, Tail(view))

\* Series.sum(): numbers add up skipping NaN; an object column of text
\* concatenates; an empty selection sums to 0
ColumnSum(frame, c, view) ==
    IF IsNumericDtype(frame.col[c].dtype) \/ view = <<>>
    THEN Num(SumNumeric(frame, c, view))
    ELSE Str(ConcatText(frame, c, view))

\* lines 118-120, given the sorted view of line 120
TopNShare(frame, ro, sorted, top_n) ==
    IF ro.wgt_col # NoCol THEN ColumnSum(frame, ro.wgt_col, head(sorted, top_n))
    ELSE Num(0)

\* line 125: f"{topN_share:.2f}%" if topN_share else "-"
ShareDisplay(share) ==
    IF share.t = "num"
    THEN IF share.v # 0 THEN [kind |-> "percent", v |-> share.v]
         ELSE [kind |-> "dash", v |-> 0]
    ELSE [kind |-> "format_error", v |-> 0]

\* line 171: the options of the metric selectbox
MetricOptions(ro) ==
    <<ro.val_col>> \o (IF ro.wgt_col # NoCol THEN <<ro.wgt_col>> ELSE <<>>)
                   \o (IF ro.own_col # NoCol THEN <<ro.own_col>> ELSE <<>>)

MetricValue(w, ro) == IF w.metric = NoCol THEN MetricOptions(ro)[1] ELSE w.metric

NoMetrics == [rows |-> 0, cols |-> 0, total_valuation |-> 0,
              topN_share |-> Num(0), share |-> [kind |-> "none", v |-> 0]]

-----------------------------------------------------------------------------
(* One run of the script *)

SidebarElements(frame, ro) ==
    <<"sidebar.header", "keyword", "top_n", "sidebar.markdown", "val_range">>
      \o (IF RangeActive(frame, ro.own_col) THEN <<"own_range">> ELSE <<>>)
      \o (IF RangeActive(frame, ro.wgt_col) THEN <<"wgt_range">> ELSE <<>>)
      \o <<"theme">>

\* lines 37-58: the normalized frame and the column roles of a loaded file
LoadedFrame(r, np) == IF r.ok THEN Normalize(r.frame, np) ELSE NoFrame
LoadedRoles(r, frame) == IF r.ok THEN ResolveRoles(frame) ELSE NoRoles

\* lines 42-99: caption, roles, sidebar, filters on a loaded frame
ScriptLoaded(frame, ro, w) ==
    IF ~ro.ok
    THEN \* IndexError out of line 55 or 56
         [status |-> "crashed", rendered |-> <<"title", "caption">>,
          frame |-> frame, roles |-> ro, df_f |-> <<>>]
    ELSE IF Strip(w.keyword) # <<>> /\ ~ValidPattern(Strip(w.keyword))
    THEN \* re.error out of str.contains, line 91
         [status |-> "crashed",
          rendered |-> <<"title", "caption">> \o SidebarElements(frame, ro),
          frame |-> frame, roles |-> ro, df_f |-> <<>>]
    ELSE [status |-> "ok",
          rendered |-> <<"title", "caption">> \o SidebarElements(frame, ro)
                          \o <<"success">>,
          frame |-> frame, roles |-> ro,
          df_f |-> ApplyFilters(frame, ro, w.keyword,
                      SliderValue(w.val_range, frame, ro.val_col),
                      IF RangeActive(frame, ro.own_col)
                      THEN SliderValue(w.own_range, frame, ro.own_col)
                      ELSE <<0, 0>>,
                      IF RangeActive(frame, ro.wgt_col)
                      THEN SliderValue(w.wgt_range, frame, ro.wgt_col)
                      ELSE <<0, 0>>)]

\* st.stop() of line 40 left out: the run goes on to the caption and fails
\* on the columns of a frame that is None
ScriptHeadNoStop(r, frame, ro, w) ==
    IF ~r.ok
    THEN [status |-> "crashed", rendered |-> <<"title", "error", "caption">>,
          frame |-> frame, roles |-> ro, df_f |-> <<>>]
    ELSE ScriptLoaded(frame, ro, w)

\* lines 15-99: title, load check, and the rest on a loaded frame
ScriptHead(r, frame, ro, w) ==
    IF ~r.ok
    THEN \* lines 38-40: st.error, st.stop
         [status |-> "halted", rendered |-> <<"title", "error">>,
          frame |-> frame, roles |-> ro, df_f |-> <<>>]
    ELSE ScriptLoaded(frame, ro, w)

\* lines 112-130, given the result of sort_values(val_col, ascending=False)
Overview(h, w, byVal) ==
    LET share == TopNShare(h.frame, h.roles, byVal, w.top_n)
    IN  [rows            |-> Len(h.df_f),
         cols            |-> Len(h.frame.cols),
         total_valuation |-> SumNumeric(h.frame, h.roles.val_col, h.df_f),
         topN_share      |-> share,
         share           |-> ShareDisplay(share)]

Col0Elements == <<"col0.subheader", "metric.rows", "metric.total",
                  "metric.share", "col0.divider", "col0.markdown", "top_tbl">>

Col1Elements(frame, ro) ==
    <<"col1.subheader", "bar", "col1.divider">>
      \o (IF RangeActive(frame, ro.own_col) THEN <<"hist.own">> ELSE <<>>)
      \o (IF RangeActive(frame, ro.wgt_col) THEN <<"hist.wgt">> ELSE <<>>)

Col2Elements == <<"col2.subheader", "metric", "asc", "rank", "col2.divider",
                  "col2.markdown", "preview", "download", "expander">>

\* the state a run leaves behind
Outcome(r, h, st, elems, m, tt, rk) ==
    /\ status' = st
    /\ rendered' = elems
    /\ df' = h.frame
    /\ used_file' = r.fname
    /\ used_enc' = r.enc
    /\ roles' = h.roles
    /\ df_f' = h.df_f
    /\ metrics' = m
    /\ top_tbl' = tt
    /\ rank' = rk

\* the whole script, run with widget state w; k is the session's run count.
\* (\E x \in {e} : ... names the value of e.)
RunScript(w, k) ==
    \E r \in {CachedLoad(cache, files)} :
    \E frame \in {LoadedFrame(r, nan_parses)} :
    \E ro \in {LoadedRoles(r, frame)} :
    \E h \in {ScriptHead(r, frame, ro, w)} :
        /\ cache' = [filled |-> TRUE, result |-> r]
        /\ widgets' = w
        /\ interactions' = k
        /\ UNCHANGED <<files, nan_parses>>
        /\ IF h.status # "ok"
           THEN Outcome(r, h, h.status, h.rendered, NoMetrics, <<>>, <<>>)
           ELSE \E byVal \in sort_values(frame, ro.val_col, FALSE, h.df_f) :
                \E m \in {Overview(h, w, byVal)} :
                    IF m.share.kind = "format_error"
                    THEN \* ValueError out of the f-string of line 125
                         Outcome(r, h, "crashed",
                                 h.rendered \o SubSeq(Col0Elements, 1, 3),
                                 m, <<>>, <<>>)
                    ELSE \E byMetric \in sort_values(frame, MetricValue(w, ro),
                                                    w.asc, h.df_f) :
                           Outcome(r, h, "ok",
                                   h.rendered \o Col0Elements
                                      \o Col1Elements(frame, ro) \o Col2Elements,
                                   m, head(byVal, w.top_n), head(byMetric, w.top_n))

Shown(e) == e \in Range(rendered)
CanInteract == interactions < MaxInteractions

-----------------------------------------------------------------------------
(* Interactions: each sets one widget and re-runs the script *)

KeywordChoices ==
    {<<>>, <<" ">>, <<"a">>, <<" ", "B", " ">>, <<".">>, <<"(">>, NanText}

TopNChoices == {TopNMin, TopNDefault, TopNMax}

\* the positions of a range slider: pairs of values of its column
RangeChoices(c) ==
    {p \in NumericValues(df, c) \X NumericValues(df, c) : p[1] <= p[2]}

\* the stored state of a range slider; the default pair is the untouched state
RangeState(c, p) ==
    IF p = <<SliderMin(df, c), SliderMax(df, c)>> THEN UnsetRange
    ELSE [set |-> TRUE, lo |-> p[1], hi |-> p[2]]

\* first request of a browser session: every widget at its default
OpenSession ==
    /\ status = "init"
    /\ RunScript(DefaultWidgets, 0)

\* a page reload starts a new session of the same server process
Reload ==
    /\ status # "init"
    /\ CanInteract
    /\ RunScript(DefaultWidgets, interactions + 1)

SetKeyword ==
    /\ Shown("keyword")
    /\ CanInteract
    /\ \E k \in KeywordChoices \ {widgets.keyword} :
          RunScript([widgets EXCEPT !.keyword = k], interactions + 1)

SetTopN ==
    /\ Shown("top_n")
    /\ CanInteract
    /\ \E n \in TopNChoices \ {widgets.top_n} :
          RunScript([widgets EXCEPT !.top_n = n], interactions + 1)

SetValRange ==
    /\ Shown("val_range")
    /\ CanInteract
    /\ \E p \in RangeChoices(roles.val_col) :
          /\ RangeState(roles.val_col, p) # widgets.val_range
          /\ RunScript([widgets EXCEPT !.val_range = RangeState(roles.val_col, p)],
                       interactions + 1)

SetOwnRange ==
    /\ Shown("own_range")
    /\ CanInteract
    /\ \E p \in RangeChoices(roles.own_col) :
          /\ RangeState(roles.own_col, p) # widgets.own_range
          /\ RunScript([widgets EXCEPT !.own_range = RangeState(roles.own_col, p)],
                       interactions + 1)

SetWgtRange ==
    /\ Shown("wgt_range")
    /\ CanInteract
    /\ \E p \in RangeChoices(roles.wgt_col) :
          /\ RangeState(roles.wgt_col, p) # widgets.wgt_range
          /\ RunScript([widgets EXCEPT !.wgt_range = RangeState(roles.wgt_col, p)],
                       interactions + 1)

SetMetric ==
    /\ Shown("metric")
    /\ CanInteract
    /\ \E i \in 1..Len(MetricOptions(roles)) :
          LET m == IF i = 1 THEN NoCol ELSE MetricOptions(roles)[i]
          IN  /\ m # widgets.metric
              /\ RunScript([widgets EXCEPT !.metric = m], interactions + 1)

ToggleAsc ==
    /\ Shown("asc")
    /\ CanInteract
    /\ RunScript([widgets EXCEPT !.asc = ~widgets.asc], interactions + 1)

Next ==
    \/ OpenSession
    \/ Reload
    \/ SetKeyword
    \/ SetTopN
    \/ SetValRange
    \/ SetOwnRange
    \/ SetWgtRange
    \/ SetMetric
    \/ ToggleAsc

-----------------------------------------------------------------------------
(* Input files *)

\* rows of the sample holdings file: name, valuation, weight, ownership
SampleRows ==
    << [name |-> <<"A", "b">>,      val |-> <<"2">>,           wgt |-> <<"0">>, own |-> <<"1">>],
       [name |-> <<>>,              val |-> <<"1">>,           wgt |-> <<"0">>, own |-> <<"2">>],
       [name |-> <<"a", ",", "b">>, val |-> <<"2">>,           wgt |-> <<"1">>, own |-> <<"b">>],
       [name |-> <<"B">>,           val |-> <<>>,              wgt |-> <<>>,    own |-> <<"1">>],
       [name |-> <<"b", "a">>,      val |-> <<"1", ",", "0">>, wgt |-> <<"2">>, own |-> <<"2">>],
       [name |-> <<"A">>,           val |-> <<"b">>,           wgt |-> <<"1">>, own |-> <<"1">>] >>

\* header layouts: the expected schema, one without the weight column, and
\* one with no canonical header at all
FullLayout  == <<NoHeader, NameHeader, ValHeader, WgtHeader, OwnHeader>>
NoWgtLayout == <<NoHeader, NameHeader, ValHeader, OwnHeader>>
BareLayout  == <<"no", "title", "amount">>
Layouts == {FullLayout, NoWgtLayout, BareLayout}

FieldOf(header) ==
    CASE header \in {NameHeader, "title"} -> "name"
      [] header \in {ValHeader, "amount"} -> "val"
      [] header = WgtHeader -> "wgt"
      [] header = OwnHeader -> "own"
      [] OTHER -> "no"

RECURSIVE Ascending(_)
Ascending(S) ==
    IF S = {} THEN <<>> ELSE <<Min(S)>> \o Ascending(S \ {Min(S)})

\* the file holding the selected sample rows, numbered from 1
MakeTable(layout, sel) ==
    LET picked == Ascending(sel)
    IN  [cols |-> layout,
         rows |-> [i \in 1..Len(picked) |->
                     [h \in Range(layout) |->
                        IF FieldOf(h) = "no" THEN IntToStr(i)
                        ELSE SampleRows[picked[i]][FieldOf(h)]]]]

Selections ==
    {sel \in SUBSET (1..Len(SampleRows)) : 1 <= Cardinality(sel) /\ Cardinality(sel) <= MaxRows}
      \cup {1..Len(SampleRows)}

Tables == {MakeTable(l, sel) : l \in Layouts, sel \in Selections}

\* the file the script can run on: its sliders have finite limits
Usable(table, np) ==
    LET frame == Normalize(read_csv(table), np)
    IN  ResolveRoles(frame).ok /\ SlidersDefined(frame, ResolveRoles(frame))

\* builds of to_numeric to consider for a table
NanBuilds(fs) ==
    IF \E f \in fs : Normalize(read_csv(f.table), TRUE) # Normalize(read_csv(f.table), FALSE)
    THEN BOOLEAN ELSE {FALSE}

InitSession ==
    /\ cache = EmptyCache
    /\ widgets = DefaultWidgets
    /\ interactions = 0
    /\ status = "init"
    /\ rendered = <<>>
    /\ df = NoFrame
    /\ used_file = NoCol
    /\ used_enc = NoCol
    /\ roles = NoRoles
    /\ df_f = <<>>
    /\ metrics = NoMetrics
    /\ top_tbl = <<>>
    /\ rank = <<>>

\* a repository holding one UTF-8 holdings file
Init ==
    /\ \E t \in Tables :
          files = {[name |-> "b_NPS.csv", kind |-> "utf8", table |-> t]}
    /\ nan_parses \in NanBuilds(files)
    /\ \A f \in files : Usable(f.table, nan_parses)
    /\ InitSession

Spec == Init /\ [][Next]_vars

\* directories of up to MaxFiles files of any encoding
FileKinds == {"utf8", "euckr", "empty"}

FixedTable(name) ==
    IF name = "b_NPS.csv" THEN MakeTable(FullLayout, {1, 5})
    ELSE MakeTable(FullLayout, {NameRank(name)})

Directories ==
    UNION {{{[name |-> n, kind |-> k[n], table |-> FixedTable(n)] : n \in ns} :
               k \in [ns -> FileKinds]} :
           ns \in {x \in SUBSET Range(NamePool) : Cardinality(x) <= MaxFiles}}

InitLoad ==
    /\ files \in Directories
    /\ nan_parses = FALSE
    /\ InitSession

SpecLoad == InitLoad /\ [][Next]_vars

-----------------------------------------------------------------------------
(* Properties *)

Loaded == Shown("caption")
Filtered == Shown("success")
RawFrame == cache.result.frame
KeywordActive == Strip(widgets.keyword) # <<>>
NameText(i) == AsTypeStr(Cell(df, roles.name_col, i), df.col[roles.name_col].dtype)
RangeColumns == {c \in {roles.val_col, roles.own_col, roles.wgt_col} :
                    c = roles.val_col \/ RangeActive(df, c)}
RangeWidget(w, c) ==
    IF c = roles.val_col THEN w.val_range
    ELSE IF c = roles.own_col THEN w.own_range ELSE w.wgt_range
CurrentRange(c) == SliderValue(RangeWidget(widgets, c), df, c)
HasNumber(c, i) == NumericOf(Cell(df, c, i)).t = "num"
Value(c, i) == NumericOf(Cell(df, c, i)).v
InRange(c, i) ==
    HasNumber(c, i) /\ CurrentRange(c)[1] <= Value(c, i) /\ Value(c, i) <= CurrentRange(c)[2]
PassesKeyword(i) == KeywordActive => KeywordMatch(df, roles.name_col, Strip(widgets.keyword), i)
InView(i) == i \in Range(df_f)

\* C1: after any sequence of parameter changes the filtered view holds
\* exactly the rows of the normalized dataset that pass the keyword filter
\* (when active) and every active range filter under the current
\* parameters, each once and in dataset order.
C1_ViewIsConjunction ==
    Filtered =>
        /\ \A i \in 1..df.n :
              InView(i) <=> (PassesKeyword(i) /\ \A c \in RangeColumns : InRange(c, i))
        /\ \A a, b \in 1..Len(df_f) : a < b => df_f[a] < df_f[b]

C1_Witness ==
    /\ Filtered
    /\ interactions >= 2
    /\ KeywordActive
    /\ widgets.val_range.set
    /\ df_f # <<>>
    /\ \E i \in 1..df.n : ~InView(i) /\ PassesKeyword(i)
    /\ \E i \in 1..df.n : ~InView(i) /\ ~PassesKeyword(i)

\* C2: the loader returns the first (file, encoding) pair that parses, files
\* in sorted order and encodings in the fixed order, among the hinted files
\* when there is one and among all files otherwise; it returns no data
\* exactly when no candidate parses under any encoding.
EncodingRank(e) == CHOOSE i \in 1..Len(Encodings) : Encodings[i] = e
ExpectedCandidates ==
    IF \E f \in files : HasHint(f.name)
    THEN {f \in files : HasHint(f.name)} ELSE files
C3_InclusiveRange ==
    Filtered =>
        \A c \in RangeColumns :
            LET others(i) == PassesKeyword(i) /\ \A d \in RangeColumns \ {c} : InRange(d, i)
                lo == CurrentRange(c)[1]
                hi == CurrentRange(c)[2]
            IN  /\ \A i \in 1..df.n :
                      others(i) =>
                          (InView(i) <=> (HasNumber(c, i) /\ lo <= Value(c, i) /\ Value(c, i) <= hi))
                /\ \A i \in 1..df.n : ~HasNumber(c, i) => ~InView(i)
                /\ ~RangeWidget(widgets, c).set =>
                      \A i \in 1..df.n : (others(i) /\ HasNumber(c, i)) => InView(i)

C3_Witness ==
    /\ Filtered
    /\ widgets.val_range.set
    /\ ~widgets.own_range.set
    /\ \E i \in 1..df.n : InView(i) /\ Value(roles.val_col, i) = CurrentRange(roles.val_col)[1]
    /\ \E i \in 1..df.n : InView(i) /\ Value(roles.val_col, i) = CurrentRange(roles.val_col)[2]
    /\ \E i \in 1..df.n : HasNumber(roles.val_col, i) /\ ~InRange(roles.val_col, i)
    /\ \E i \in 1..df.n : Cell(df, roles.val_col, i).t = "str" /\ ~HasNumber(roles.val_col, i)

\* C4: with a keyword that is not blank, a row passes the keyword filter
\* exactly when the text of its name contains the trimmed keyword as a
\* case-insensitive literal substring, whatever characters the keyword
\* holds; a blank keyword removes no row.
ContainsLiteral(kw, s) ==
    \E i \in 1..(Len(s) - Len(kw) + 1) :
        \A k \in 1..Len(kw) : LowerChar(kw[k]) = LowerChar(s[i + k - 1])
C4_LiteralKeyword ==
    Loaded =>
        /\ Filtered
        /\ \A i \in 1..df.n :
              (\A c \in RangeColumns : InRange(c, i)) =>
                  (InView(i) <=>
                      (KeywordActive => ContainsLiteral(Strip(widgets.keyword), NameText(i))))

\* C5: normalization never coerces a text column in part: a column loaded
\* as text either becomes numeric as a whole or keeps its values as loaded.
C5_NoPartialCoercion ==
    Loaded =>
        \A c \in Range(df.cols) :
            RawFrame.col[c].dtype = "object" =>
                \/ /\ IsNumericDtype(df.col[c].dtype)
                   /\ \A i \in 1..df.n : Cell(RawFrame, c, i).t = "str" => Cell(df, c, i).t = "num"
                \/ df.col[c] = RawFrame.col[c]

\* C6: when the weight column exists the Top-N share shown is the sum of the
\* weights of the first top_n rows by valuation, as a percentage even when
\* it is 0; the no-data marker is shown only when the column is absent.
C6_ShareDistinguished ==
    status = "ok" =>
        IF roles.wgt_col # NoCol
        THEN /\ metrics.share.kind = "percent"
             /\ metrics.share.v = SumNumeric(df, roles.wgt_col, top_tbl)
        ELSE metrics.share.kind = "dash"

\* C7 as stated: when the loader returns no data the run shows the error
\* and nothing else, and executes no later step.
NothingComputed ==
    /\ df = NoFrame
    /\ roles = NoRoles
    /\ df_f = <<>>
    /\ metrics = NoMetrics
    /\ top_tbl = <<>>
    /\ rank = <<>>
NoDataRun == status # "init" /\ ~cache.result.ok
C7_OnlyError ==
    NoDataRun => status = "halted" /\ rendered = <<"error">> /\ NothingComputed

\* C7 amended: when the loader returns no data the run shows the page title
\* and then the error, halts, and executes no later step.
C7_TitleThenError ==
    NoDataRun => status = "halted" /\ rendered = <<"title", "error">> /\ NothingComputed

C7_Witness ==
    /\ status = "halted"
    /\ files # {}
    /\ interactions >= 1

\* C8: every ranked view is a stable sort: rows with equal values of the sort
\* key keep the order they have in the filtered view.
KeepsViewOrder(view, c) ==
    \A a, b \in 1..Len(view) :
        (a < b /\ Cell(df, c, view[a]) = Cell(df, c, view[b])) => view[a] < view[b]
C8_StableRanking ==
    status = "ok" =>
        /\ KeepsViewOrder(top_tbl, roles.val_col)
        /\ KeepsViewOrder(rank, MetricValue(widgets, roles))

\* C9: while the keyword filter is active no row whose name is missing in
\* the loaded file is in the filtered view, whatever the keyword; stated
\* here for keywords of letters only, such as "a" or "nan", which mean the
\* same as a pattern and as a literal.
PlainKeyword == \A k \in 1..Len(widgets.keyword) : widgets.keyword[k] \notin {".", "("}
C9_NullNameExcluded ==
    (Filtered /\ KeywordActive /\ PlainKeyword) =>
        \A i \in 1..df.n : InView(i) => Cell(RawFrame, roles.name_col, i).t # "null"

\* C10: with the dataset, the keyword and the other ranges unchanged,
\* widening one range keeps every row of the view and narrowing it adds none.
SameExcept(c) ==
    /\ widgets'.keyword = widgets.keyword
    /\ \A d \in RangeColumns \ {c} : RangeWidget(widgets', d) = RangeWidget(widgets, d)
RangeAfter(c) == SliderValue(RangeWidget(widgets', c), df, c)
Widened(c) == RangeAfter(c)[1] <= CurrentRange(c)[1] /\ RangeAfter(c)[2] >= CurrentRange(c)[2]
Narrowed(c) == RangeAfter(c)[1] >= CurrentRange(c)[1] /\ RangeAfter(c)[2] <= CurrentRange(c)[2]
C10_Step ==
    (Filtered /\ Filtered') =>
        \A c \in RangeColumns :
            SameExcept(c) =>
                /\ Widened(c) => (Range(df_f) \subseteq Range(df_f') /\ Len(df_f) <= Len(df_f'))
                /\ Narrowed(c) => (Range(df_f') \subseteq Range(df_f) /\ Len(df_f') <= Len(df_f))
C10_Monotone == [][C10_Step]_vars

C10_Witness ==
    /\ Filtered
    /\ interactions = 1
    /\ widgets.val_range.set
    /\ df_f # <<>>
    /\ \E i \in 1..df.n : HasNumber(roles.val_col, i) /\ ~InView(i)

====
